---- MODULE Spec2Model ----
(***************************************************************************)
(* Model of ragbuilder's configuration layer:                              *)
(*   src/ragbuilder/data_ingest/config.py  (schemas, load_config,          *)
(*                                          save_config)                   *)
(*   src/ragbuilder/config/components.py   (enumerations, lazy_load, the   *)
(*                                          registry maps, the             *)
(*                                          requirements table)            *)
(*                                                                         *)
(* Python values and YAML nodes are tagged records:                        *)
(*   null, str, int, float, bool, seq, map   plain values, shared by YAML  *)
(*   enum    a member of a (str, Enum) class, Python side only             *)
(*   model   an instance of a pydantic model, Python side only             *)
(*   pyobj   a "!!python/object/apply:<class>" node, YAML side only        *)
(***************************************************************************)
EXTENDS Integers, Sequences, FiniteSets, TLC

----------------------------------------------------------------------------
(* Values *)

PNone == [tag |-> "null"]

PStr(s) == [tag |-> "str", s |-> s]

PInt(n) == [tag |-> "int", n |-> n]

PFloat(f) == [tag |-> "float", f |-> f]

PBool(b) == [tag |-> "bool", b |-> b]

PList(xs) == [tag |-> "seq", items |-> xs]

\* a dict / YAML mapping; strkeys = FALSE when it also holds a non-string key
PDict(m) == [tag |-> "map", m |-> m, strkeys |-> TRUE]

PDictNonStr(m) == [tag |-> "map", m |-> m, strkeys |-> FALSE]

PEnum(cls, v) == [tag |-> "enum", cls |-> cls, value |-> v]

PModel(cls, f) == [tag |-> "model", cls |-> cls, fields |-> f]

YPyObject(cls, v) == [tag |-> "pyobj", cls |-> cls, value |-> v]

EmptyMap == [x \in {} |-> PNone]

\* the function f extended / overridden by g
Merge(f, g) == [x \in (DOMAIN f) \cup (DOMAIN g) |-> IF x \in DOMAIN g THEN g[x] ELSE f[x]]

----------------------------------------------------------------------------
(* components.py: the enumerations that config.py validates against *)

ParserType ==
    {"unstructured", "pymupdf", "pypdf", "docx", "azure_blob", "s3", "directory", "web", "custom"}

ChunkingStrategy ==
    {"CharacterTextSplitter", "RecursiveCharacterTextSplitter", "TokenTextSplitter",
     "MarkdownHeaderTextSplitter", "HTMLHeaderTextSplitter", "SemanticChunker", "custom"}

EmbeddingModel ==
    {"openai", "azure_openai", "huggingface", "ollama", "cohere", "vertexai", "bedrock", "jina", "custom"}

VectorDatabase ==
    {"faiss", "chroma", "pinecone", "weaviate", "qdrant", "milvus", "pgvector", "elasticsearch", "custom"}

EvaluatorType == {"similarity", "ragas", "custom"}

LLMType ==
    {"openai", "azure_openai", "huggingface", "ollama", "cohere", "vertexai", "bedrock", "jina", "custom"}

RetrieverType ==
    {"similarity", "mmr", "multi_query", "bm25", "parent_doc_full", "parent_doc_large", "graph", "custom"}

RerankerType ==
    {"mixedbread-ai/mxbai-rerank-large-v1", "mixedbread-ai/mxbai-rerank-base-v1",
     "BAAI/bge-reranker-base", "flashrank", "cohere", "jina", "colbert", "rankllm", "custom"}

GraphType == {"neo4j"}

EnumValues(cls) ==
    CASE cls = "ParserType" -> ParserType
      [] cls = "ChunkingStrategy" -> ChunkingStrategy
      [] cls = "EmbeddingModel" -> EmbeddingModel
      [] cls = "VectorDatabase" -> VectorDatabase
      [] cls = "EvaluatorType" -> EvaluatorType
      [] cls = "LLMType" -> LLMType
      [] cls = "RetrieverType" -> RetrieverType
      [] cls = "RerankerType" -> RerankerType
      [] cls = "GraphType" -> GraphType

----------------------------------------------------------------------------
(* config.py: field types *)

TAny == [k |-> "any"]

TStr == [k |-> "str"]

TInt == [k |-> "int"]

TFloat == [k |-> "float"]

TBool == [k |-> "bool"]

\* Dict[str, Any]
TDict == [k |-> "dict"]

TOptional(T) == [k |-> "opt", of |-> T]

TList(T) == [k |-> "list", of |-> T]

TUnion(T1, T2) == [k |-> "union", a |-> T1, b |-> T2]

TEnum(cls) == [k |-> "enum", cls |-> cls]

TModel(cls) == [k |-> "model", cls |-> cls]

\* Field(...) : a required field
Required(T) == [type |-> T, required |-> TRUE, default |-> PNone]

\* Field(default=..., default_factory=...) : the value a missing key gets
Default(T, d) == [type |-> T, required |-> FALSE, default |-> d]

----------------------------------------------------------------------------
(* State *)

VARIABLES
    clock,          \* what time.time() returns, in ticks since config.py was imported
    study_default,  \* OptimizationConfig.study_name's default, computed once when the class is defined
    files,          \* path -> YAML document stored there, or NoFile
    held,           \* the record the caller holds from its last successful load_config
    last,           \* the last operation and its outcome
    saved,          \* path -> the record save_config wrote there (PNone when the file is not a saved record)
    built,          \* components.py has been executed: the registry maps exist
    disk,           \* module path -> "absent", "installed" or "broken" (installed, raises when imported)
    sys_modules,    \* the modules the interpreter has loaded (sys.modules)
    import_log,     \* which operation first loaded each module
    missing,        \* the <<module, symbol>> pairs an installed module does not define
    call            \* the last registry operation and its outcome

----------------------------------------------------------------------------
(* config.py: the schemas *)

DefaultEvaluatorKwargs ==
    PDict([x \in {"top_k", "position_weights", "relevance_threshold"} |->
              CASE x = "top_k" -> PInt(5)
                [] x = "position_weights" -> PNone
                [] x = "relevance_threshold" -> PFloat("0.75")])

LoaderConfig ==
    [f \in {"type", "loader_kwargs", "custom_class"} |->
        CASE f = "type" -> Required(TEnum("ParserType"))
          [] f = "loader_kwargs" -> Default(TOptional(TDict), PNone)
          [] f = "custom_class" -> Default(TOptional(TStr), PNone)]

ChunkingStrategyConfig ==
    [f \in {"type", "chunker_kwargs", "custom_class"} |->
        CASE f = "type" -> Required(TEnum("ChunkingStrategy"))
          [] f = "chunker_kwargs" -> Default(TOptional(TDict), PNone)
          [] f = "custom_class" -> Default(TOptional(TStr), PNone)]

ChunkSizeConfig ==
    [f \in {"min", "max", "stepsize"} |->
        CASE f = "min" -> Default(TInt, PInt(100))
          [] f = "max" -> Default(TInt, PInt(500))
          [] f = "stepsize" -> Default(TInt, PInt(100))]

VectorDBConfig ==
    [f \in {"type", "vectordb_kwargs", "custom_class"} |->
        CASE f = "type" -> Required(TEnum("VectorDatabase"))
          [] f = "vectordb_kwargs" -> Default(TOptional(TDict), PDict(EmptyMap))
          [] f = "custom_class" -> Default(TOptional(TStr), PNone)]

EmbeddingConfig ==
    [f \in {"type", "model_kwargs", "custom_class"} |->
        CASE f = "type" -> Required(TEnum("EmbeddingModel"))
          [] f = "model_kwargs" -> Default(TOptional(TDict), PDict(EmptyMap))
          [] f = "custom_class" -> Default(TOptional(TStr), PNone)]

EvaluationConfig ==
    [f \in {"type", "custom_class", "evaluator_kwargs"} |->
        CASE f = "type" -> Default(TEnum("EvaluatorType"), PEnum("EvaluatorType", "similarity"))
          [] f = "custom_class" -> Default(TOptional(TStr), PNone)
          [] f = "evaluator_kwargs" -> Default(TOptional(TDict), DefaultEvaluatorKwargs)]

OptimizationConfig ==
    [f \in {"type", "n_trials", "n_jobs", "timeout", "storage", "study_name",
            "load_if_exists", "overwrite_study", "optimization_direction"} |->
        CASE f = "type" -> Default(TOptional(TStr), PStr("Optuna"))
          [] f = "n_trials" -> Default(TOptional(TInt), PInt(10))
          [] f = "n_jobs" -> Default(TOptional(TInt), PInt(1))
          [] f = "timeout" -> Default(TOptional(TInt), PNone)
          [] f = "storage" -> Default(TOptional(TStr), PNone)
          [] f = "study_name" -> Default(TOptional(TStr), PStr(study_default))
          [] f = "load_if_exists" -> Default(TOptional(TBool), PBool(FALSE))
          [] f = "overwrite_study" -> Default(TOptional(TBool), PBool(FALSE))
          [] f = "optimization_direction" -> Default(TOptional(TStr), PStr("maximize"))]

\* the dataclass LogConfig; log_level defaults to logging.INFO = 20
LogConfig ==
    [f \in {"log_level", "log_file", "show_progress_bar", "verbose"} |->
        CASE f = "log_level" -> Default(TInt, PInt(20))
          [] f = "log_file" -> Default(TOptional(TStr), PNone)
          [] f = "show_progress_bar" -> Default(TBool, PBool(TRUE))
          [] f = "verbose" -> Default(TBool, PBool(FALSE))]

\* an instance built from the defaults alone, with the fields in over overridden
Instance(cls, F, over) == PModel(cls, Merge([f \in DOMAIN F |-> F[f].default], over))

DefaultLoader ==
    Instance("LoaderConfig", LoaderConfig,
             [x \in {"type"} |-> PEnum("ParserType", "unstructured")])

DefaultChunker ==
    Instance("ChunkingStrategyConfig", ChunkingStrategyConfig,
             [x \in {"type"} |-> PEnum("ChunkingStrategy", "RecursiveCharacterTextSplitter")])

DefaultEmbedding ==
    Instance("EmbeddingConfig", EmbeddingConfig,
             [x \in {"type", "model_kwargs"} |->
                 IF x = "type" THEN PEnum("EmbeddingModel", "huggingface")
                 ELSE PDict([y \in {"model_name"} |-> PStr("sentence-transformers/all-MiniLM-L6-v2")])])

DefaultVectorDB ==
    Instance("VectorDBConfig", VectorDBConfig,
             [x \in {"type", "vectordb_kwargs"} |->
                 IF x = "type" THEN PEnum("VectorDatabase", "faiss") ELSE PDict(EmptyMap)])

DefaultEvaluation ==
    Instance("EvaluationConfig", EvaluationConfig,
             [x \in {"type", "evaluator_kwargs"} |->
                 IF x = "type" THEN PEnum("EvaluatorType", "similarity") ELSE DefaultEvaluatorKwargs])

BaseConfig ==
    [f \in {"input_source", "test_dataset"} |->
        CASE f = "input_source" -> Required(TUnion(TStr, TList(TStr)))
          [] f = "test_dataset" -> Required(TStr)]

DataIngestOptionsConfig ==
    Merge(BaseConfig,
        [f \in {"document_loaders", "chunking_strategies", "chunk_size", "chunk_overlap",
                "embedding_models", "vector_databases", "sampling_rate", "optimization",
                "log_config", "database_logging", "database_path", "evaluation_config"} |->
            CASE f = "document_loaders" ->
                     Default(TOptional(TList(TModel("LoaderConfig"))), PList(<<DefaultLoader>>))
              [] f = "chunking_strategies" ->
                     Default(TOptional(TList(TModel("ChunkingStrategyConfig"))), PList(<<DefaultChunker>>))
              [] f = "chunk_size" ->
                     Default(TOptional(TModel("ChunkSizeConfig")),
                             Instance("ChunkSizeConfig", ChunkSizeConfig, EmptyMap))
              [] f = "chunk_overlap" -> Default(TOptional(TList(TInt)), PList(<<PInt(100)>>))
              [] f = "embedding_models" ->
                     Default(TOptional(TList(TModel("EmbeddingConfig"))), PList(<<DefaultEmbedding>>))
              [] f = "vector_databases" ->
                     Default(TOptional(TList(TModel("VectorDBConfig"))), PList(<<DefaultVectorDB>>))
              [] f = "sampling_rate" -> Default(TOptional(TFloat), PNone)
              [] f = "optimization" ->
                     Default(TOptional(TModel("OptimizationConfig")),
                             Instance("OptimizationConfig", OptimizationConfig, EmptyMap))
              [] f = "log_config" ->
                     Default(TOptional(TModel("LogConfig")), Instance("LogConfig", LogConfig, EmptyMap))
              [] f = "database_logging" -> Default(TOptional(TBool), PBool(TRUE))
              [] f = "database_path" -> Default(TOptional(TStr), PStr("eval.db"))
              [] f = "evaluation_config" -> Default(TModel("EvaluationConfig"), DefaultEvaluation)])

DataIngestConfig ==
    Merge(BaseConfig,
        [f \in {"document_loader", "chunking_strategy", "chunk_size", "chunk_overlap",
                "embedding_model", "vector_database", "sampling_rate"} |->
            CASE f = "document_loader" -> Default(TModel("LoaderConfig"), DefaultLoader)
              [] f = "chunking_strategy" -> Default(TModel("ChunkingStrategyConfig"), DefaultChunker)
              [] f = "chunk_size" -> Default(TInt, PInt(1000))
              [] f = "chunk_overlap" -> Default(TInt, PInt(100))
              [] f = "embedding_model" -> Default(TModel("EmbeddingConfig"), DefaultEmbedding)
              [] f = "vector_database" -> Default(TModel("VectorDBConfig"), DefaultVectorDB)
              [] f = "sampling_rate" -> Default(TOptional(TFloat), PNone)])

ModelFields(cls) ==
    CASE cls = "LoaderConfig" -> LoaderConfig
      [] cls = "ChunkingStrategyConfig" -> ChunkingStrategyConfig
      [] cls = "ChunkSizeConfig" -> ChunkSizeConfig
      [] cls = "VectorDBConfig" -> VectorDBConfig
      [] cls = "EmbeddingConfig" -> EmbeddingConfig
      [] cls = "EvaluationConfig" -> EvaluationConfig
      [] cls = "OptimizationConfig" -> OptimizationConfig
      [] cls = "LogConfig" -> LogConfig
      [] cls = "DataIngestOptionsConfig" -> DataIngestOptionsConfig
      [] cls = "DataIngestConfig" -> DataIngestConfig

----------------------------------------------------------------------------
(* pydantic validation (BaseModel.__init__), as config.py's declarations use it *)

VOk(v) == [ok |-> TRUE, val |-> v, errs |-> {}]

\* one error at this location; kind is pydantic's error type
VErr(kind) == [ok |-> FALSE, val |-> PNone, errs |-> {[loc |-> <<>>, kind |-> kind]}]

\* the errors of a child, located under key
Under(key, errs) == {[loc |-> <<key>> \o e.loc, kind |-> e.kind] : e \in errs}

IndexName(i) == ToString(i - 1)

VFail(errs) == [ok |-> FALSE, val |-> PNone, errs |-> errs]

\* model_config is never set in config.py, so pydantic's default extra = "ignore"
\* applies: a key of the input that is no declared field is dropped.
ExtraKeysForbidden == FALSE

ExtraErrors(F, data) ==
    IF ExtraKeysForbidden
    THEN {[loc |-> <<x>>, kind |-> "extra_forbidden"] : x \in (DOMAIN data) \ (DOMAIN F)}
    ELSE {}

\* the instance built from the fields' results r, or all of their errors
ModelResult(cls, F, r, errs) ==
    IF errs = {} THEN VOk(PModel(cls, [f \in DOMAIN F |-> r[f].val])) ELSE VFail(errs)

ModelErrors(F, r, extra) == UNION {Under(f, r[f].errs) : f \in DOMAIN F} \cup extra

ListResult(n, r, errs) ==
    IF errs = {} THEN VOk(PList([i \in 1..n |-> r[i].val])) ELSE VFail(errs)

ListErrors(n, r) == UNION {Under(IndexName(i), r[i].errs) : i \in 1..n}

UnionResult(ra, rb) ==
    IF ra.ok THEN ra ELSE IF rb.ok THEN rb ELSE VFail(ra.errs \cup rb.errs)

RECURSIVE Validate(_, _)
RECURSIVE ValidateFields(_, _, _)

\* cls(**data): every declared field is validated from its key, or takes its
\* default, or is reported missing
ValidateFields(cls, F, data) ==
    LET r == [f \in DOMAIN F |->
                 IF f \in DOMAIN data THEN Validate(F[f].type, data[f])
                 ELSE IF F[f].required THEN VErr("missing")
                 ELSE VOk(F[f].default)]
    IN ModelResult(cls, F, r, ModelErrors(F, r, ExtraErrors(F, data)))

ValidateModel(cls, data) == ValidateFields(cls, ModelFields(cls), data)

Validate(T, v) ==
    CASE T.k = "any" -> VOk(v)
      [] T.k = "str" -> IF v.tag = "str" THEN VOk(v) ELSE VErr("string_type")
      [] T.k = "int" -> IF v.tag = "int" THEN VOk(v) ELSE VErr("int_type")
      [] T.k = "float" -> IF v.tag = "float" THEN VOk(v) ELSE VErr("float_type")
      [] T.k = "bool" -> IF v.tag = "bool" THEN VOk(v) ELSE VErr("bool_type")
      [] T.k = "dict" -> IF v.tag = "map" /\ v.strkeys THEN VOk(v) ELSE VErr("dict_type")
      [] T.k = "opt" -> IF v.tag = "null" THEN VOk(v) ELSE Validate(T.of, v)
      [] T.k = "enum" ->
             IF v.tag = "str" /\ v.s \in EnumValues(T.cls) THEN VOk(PEnum(T.cls, v.s))
             ELSE IF v.tag = "enum" /\ v.cls = T.cls THEN VOk(v)
             ELSE VErr("enum")
      [] T.k = "list" ->
             IF v.tag # "seq" THEN VErr("list_type")
             ELSE LET r == [i \in 1..Len(v.items) |-> Validate(T.of, v.items[i])]
                  IN ListResult(Len(v.items), r, ListErrors(Len(v.items), r))
      [] T.k = "union" -> UnionResult(Validate(T.a, v), Validate(T.b, v))
      [] T.k = "model" ->
             IF v.tag = "model" /\ v.cls = T.cls THEN VOk(v)
             ELSE IF v.tag = "map" THEN ValidateFields(T.cls, ModelFields(T.cls), v.m)
             ELSE VErr("model_type")

----------------------------------------------------------------------------
(* Serialisation: BaseModel.model_dump, yaml.dump, yaml.safe_load *)

RECURSIVE model_dump(_)

\* model_dump() in its default (python) mode: models become dicts, every other
\* value is kept as it is, an Enum member stays an Enum member
model_dump(v) ==
    CASE v.tag = "model" -> PDict([f \in DOMAIN v.fields |-> model_dump(v.fields[f])])
      [] v.tag = "seq" -> PList([i \in 1..Len(v.items) |-> model_dump(v.items[i])])
      [] v.tag = "map" -> [v EXCEPT !.m = [x \in DOMAIN v.m |-> model_dump(v.m[x])]]
      [] OTHER -> v

\* yaml.dump's representation of a member of a (str, Enum) class: the class is
\* no exact match of a plain representer, so it is written through
\* __reduce_ex__ as "!!python/object/apply:<class> [<value>]"
RepresentEnum(v) == YPyObject(v.cls, v.value)

RECURSIVE yaml_dump(_)

yaml_dump(v) ==
    CASE v.tag = "enum" -> RepresentEnum(v)
      [] v.tag = "seq" -> PList([i \in 1..Len(v.items) |-> yaml_dump(v.items[i])])
      [] v.tag = "map" -> [v EXCEPT !.m = [x \in DOMAIN v.m |-> yaml_dump(v.m[x])]]
      [] OTHER -> v

RECURSIVE SafeLoadable(_)

\* yaml.safe_load constructs the plain YAML types only; a python/object tag
\* raises ConstructorError
SafeLoadable(n) ==
    CASE n.tag = "pyobj" -> FALSE
      [] n.tag = "seq" -> \A i \in 1..Len(n.items) : SafeLoadable(n.items[i])
      [] n.tag = "map" -> \A x \in DOMAIN n.m : SafeLoadable(n.m[x])
      [] OTHER -> TRUE

----------------------------------------------------------------------------
(* config.py: load_config and save_config *)

NoFile == [tag |-> "nofile"]

NoRecord == PNone

Raise(exc, names, title, errs, attempts) ==
    [status |-> "raise", exc |-> exc, names |-> names, title |-> title, errs |-> errs,
     record |-> NoRecord, attempts |-> attempts]

Return(rec, attempts) ==
    [status |-> "ok", exc |-> "", names |-> {}, title |-> "", errs |-> {},
     record |-> rec, attempts |-> attempts]

\* key in config_dict
Contains(d, key) ==
    CASE d.tag = "map" -> key \in DOMAIN d.m
      [] d.tag = "seq" -> \E i \in 1..Len(d.items) : d.items[i] = PStr(key)

\* a handler written as "except Exception"
CaughtByFallback_Any == {"ValidationError", "TypeError"}

\* the exception types the first attempt's handler catches
CaughtByFallback == {"ValidationError"}

ConstructResult(r) == [exc |-> IF r.ok THEN "" ELSE "ValidationError", res |-> r]

\* cls(**config_dict): TypeError unless config_dict is a mapping with string
\* keys, else the model's validation
Construct(cls, d) ==
    IF d.tag # "map" \/ ~d.strkeys
    THEN [exc |-> "TypeError", res |-> VErr("not_validated")]
    ELSE ConstructResult(ValidateModel(cls, d.m))

\* the text of the "required fields" error names these
RequiredFieldsMessage == {"input_source", "test_data"}

\* the names a ValidationError's text mentions: its title and the top of each location
ErrorNames(title, errs) == {title} \cup {e.loc[1] : e \in {x \in errs : Len(x.loc) > 0}}

BothAttempts == <<"DataIngestOptionsConfig", "DataIngestConfig">>

\* the inner try: return DataIngestConfig(**config_dict), a ValidationError
\* re-raised as ValueError(f"Invalid configuration: {str(e)}")
SecondAttempt(second) ==
    IF second.exc = "" THEN Return(second.res.val, BothAttempts)
    ELSE IF second.exc = "ValidationError"
    THEN Raise("ValueError", ErrorNames("DataIngestConfig", second.res.errs),
               "DataIngestConfig", second.res.errs, BothAttempts)
    ELSE Raise(second.exc, {}, "", {}, BothAttempts)

\* a loader that tries the single-run schema alone
FirstAttempt_SingleRunFirst(first, file) == SecondAttempt(Construct("DataIngestConfig", file))

\* the outer try: return DataIngestOptionsConfig(**config_dict), and on a
\* caught exception the inner try
FirstAttempt(first, file) ==
    IF first.exc = "" THEN Return(first.res.val, <<"DataIngestOptionsConfig">>)
    ELSE IF first.exc \notin CaughtByFallback
    THEN Raise(first.exc, {}, "", {}, <<"DataIngestOptionsConfig">>)
    ELSE SecondAttempt(Construct("DataIngestConfig", file))

load_config(file) ==
    IF file = NoFile THEN Raise("FileNotFoundError", {}, "", {}, <<>>)
    ELSE IF ~SafeLoadable(file) THEN Raise("ConstructorError", {}, "", {}, <<>>)
    ELSE IF file.tag \notin {"map", "seq"} THEN Raise("TypeError", {}, "", {}, <<>>)
    ELSE IF ~Contains(file, "input_source") \/ ~Contains(file, "test_dataset")
         THEN Raise("ValueError", RequiredFieldsMessage, "", {}, <<>>)
    ELSE FirstAttempt(Construct("DataIngestOptionsConfig", file), file)

\* BaseConfig.to_yaml: yaml.dump(self.model_dump(), file)
to_yaml(config) == yaml_dump(model_dump(config))

save_config(config) == to_yaml(config)

----------------------------------------------------------------------------
(* components.py: lazy_load and the registry maps *)

\* lazy_load(module_path, class_name): returns the closure get_class, which
\* holds its two arguments and nothing else; running lazy_load itself imports
\* no module
lazy_load_eager(module_path, class_name) ==
    [get_class |-> [module_path |-> module_path, class_name |-> class_name],
     imports |-> {module_path}]

lazy_load(module_path, class_name) ==
    [get_class |-> [module_path |-> module_path, class_name |-> class_name],
     imports |-> {}]

Factory(map, cls, value, module_path, class_name) ==
    [map |-> map, key |-> PEnum(cls, value), made |-> lazy_load(module_path, class_name)]

\* LLM_MAP, LOADER_MAP, CHUNKER_MAP, EMBEDDING_MAP, VECTORDB_MAP, RETRIEVER_MAP
\* and the 'lazy_load' items of RERANKER_MAP
RegistryMaps ==
    {Factory("LLM_MAP", "LLMType", "openai", "langchain_openai", "ChatOpenAI"),
     Factory("LLM_MAP", "LLMType", "azure_openai", "langchain_openai", "AzureChatOpenAI"),
     Factory("LOADER_MAP", "ParserType", "unstructured", "langchain_community.document_loaders", "UnstructuredFileLoader"),
     Factory("LOADER_MAP", "ParserType", "pymupdf", "langchain_community.document_loaders", "PyMuPDFLoader"),
     Factory("LOADER_MAP", "ParserType", "pypdf", "langchain_community.document_loaders", "PyPDFLoader"),
     Factory("LOADER_MAP", "ParserType", "docx", "langchain_community.document_loaders", "Docx2txtLoader"),
     Factory("LOADER_MAP", "ParserType", "azure_blob", "langchain_community.document_loaders", "AzureBlobStorageContainerLoader"),
     Factory("LOADER_MAP", "ParserType", "s3", "langchain_community.document_loaders", "S3DirectoryLoader"),
     Factory("LOADER_MAP", "ParserType", "directory", "langchain_community.document_loaders", "DirectoryLoader"),
     Factory("LOADER_MAP", "ParserType", "web", "langchain_community.document_loaders", "WebBaseLoader"),
     Factory("CHUNKER_MAP", "ChunkingStrategy", "CharacterTextSplitter", "langchain_text_splitters", "CharacterTextSplitter"),
     Factory("CHUNKER_MAP", "ChunkingStrategy", "RecursiveCharacterTextSplitter", "langchain_text_splitters", "RecursiveCharacterTextSplitter"),
     Factory("CHUNKER_MAP", "ChunkingStrategy", "TokenTextSplitter", "langchain_text_splitters", "TokenTextSplitter"),
     Factory("CHUNKER_MAP", "ChunkingStrategy", "MarkdownHeaderTextSplitter", "langchain_text_splitters", "MarkdownHeaderTextSplitter"),
     Factory("CHUNKER_MAP", "ChunkingStrategy", "HTMLHeaderTextSplitter", "langchain_text_splitters", "HTMLHeaderTextSplitter"),
     Factory("CHUNKER_MAP", "ChunkingStrategy", "SemanticChunker", "langchain_experimental.text_splitter", "SemanticChunker"),
     Factory("EMBEDDING_MAP", "EmbeddingModel", "openai", "langchain_openai", "OpenAIEmbeddings"),
     Factory("EMBEDDING_MAP", "EmbeddingModel", "azure_openai", "langchain_openai", "AzureOpenAIEmbeddings"),
     Factory("EMBEDDING_MAP", "EmbeddingModel", "huggingface", "langchain_huggingface", "HuggingFaceEmbeddings"),
     Factory("EMBEDDING_MAP", "EmbeddingModel", "ollama", "langchain_community.embeddings", "OllamaEmbeddings"),
     Factory("EMBEDDING_MAP", "EmbeddingModel", "cohere", "langchain_community.embeddings", "CohereEmbeddings"),
     Factory("EMBEDDING_MAP", "EmbeddingModel", "vertexai", "langchain_community.embeddings", "VertexAIEmbeddings"),
     Factory("EMBEDDING_MAP", "EmbeddingModel", "bedrock", "langchain_community.embeddings", "BedrockEmbeddings"),
     Factory("EMBEDDING_MAP", "EmbeddingModel", "jina", "langchain_community.embeddings", "JinaEmbeddings"),
     Factory("VECTORDB_MAP", "VectorDatabase", "faiss", "langchain.vectorstores", "FAISS"),
     Factory("VECTORDB_MAP", "VectorDatabase", "chroma", "langchain.vectorstores", "Chroma"),
     Factory("VECTORDB_MAP", "VectorDatabase", "pinecone", "langchain.vectorstores", "Pinecone"),
     Factory("VECTORDB_MAP", "VectorDatabase", "weaviate", "langchain.vectorstores", "Weaviate"),
     Factory("VECTORDB_MAP", "VectorDatabase", "qdrant", "langchain.vectorstores", "Qdrant"),
     Factory("VECTORDB_MAP", "VectorDatabase", "milvus", "langchain.vectorstores", "Milvus"),
     Factory("VECTORDB_MAP", "VectorDatabase", "pgvector", "langchain.vectorstores", "PGVector"),
     Factory("VECTORDB_MAP", "VectorDatabase", "elasticsearch", "langchain.vectorstores", "ElasticsearchStore"),
     Factory("RETRIEVER_MAP", "RetrieverType", "bm25", "langchain.retrievers", "BM25Retriever"),
     Factory("RERANKER_MAP", "RerankerType", "mixedbread-ai/mxbai-rerank-large-v1", "rerankers", "Reranker"),
     Factory("RERANKER_MAP", "RerankerType", "mixedbread-ai/mxbai-rerank-base-v1", "rerankers", "Reranker"),
     Factory("RERANKER_MAP", "RerankerType", "BAAI/bge-reranker-base", "rerankers", "Reranker"),
     Factory("RERANKER_MAP", "RerankerType", "flashrank", "rerankers", "Reranker"),
     Factory("RERANKER_MAP", "RerankerType", "cohere", "rerankers", "Reranker"),
     Factory("RERANKER_MAP", "RerankerType", "jina", "rerankers", "Reranker"),
     Factory("RERANKER_MAP", "RerankerType", "colbert", "rerankers", "Reranker"),
     Factory("RERANKER_MAP", "RerankerType", "rankllm", "rerankers", "Reranker"),
     Factory("RERANKER_MAP", "RerankerType", "custom", "rerankers", "Reranker")}

Modules == {f.made.get_class.module_path : f \in RegistryMaps}

\* importlib.import_module: a loaded module is returned from sys.modules; an
\* installed one is executed and entered there; a broken one raises while it
\* executes and is not entered; an absent one raises ModuleNotFoundError
import_module(m, dsk, loaded) ==
    IF m \in loaded THEN [exc |-> "", loaded |-> loaded]
    ELSE IF dsk[m] = "installed" THEN [exc |-> "", loaded |-> loaded \cup {m}]
    ELSE IF dsk[m] = "broken" THEN [exc |-> "RuntimeError", loaded |-> loaded]
    ELSE [exc |-> "ModuleNotFoundError", loaded |-> loaded]

Symbol(module_path, class_name) == [tag |-> "symbol", module |-> module_path, name |-> class_name]

Returned(v) == [status |-> "ok", result |-> v, exc |-> "", names |-> {}, cause |-> ""]

\* a handler that swallows the failure
WrapFailure_ReturnNone(closure, cause) == Returned(PNone)

\* except Exception as e:
\*     raise ValueError(f"Error loading {class_name} from module {module_path}: {e}")
WrapFailure(closure, cause) ==
    [status |-> "raise", result |-> PNone, exc |-> "ValueError",
     names |-> {closure.class_name, closure.module_path}, cause |-> cause]

GetAttr(closure, imp, miss) ==
    IF imp.exc # "" THEN [out |-> WrapFailure(closure, imp.exc), loaded |-> imp.loaded]
    ELSE IF <<closure.module_path, closure.class_name>> \in miss
    THEN [out |-> WrapFailure(closure, "AttributeError"), loaded |-> imp.loaded]
    ELSE [out |-> Returned(Symbol(closure.module_path, closure.class_name)), loaded |-> imp.loaded]

\* get_class(): import_module(module_path), then getattr(module, class_name)
get_class(closure, dsk, loaded, miss) ==
    GetAttr(closure, import_module(closure.module_path, dsk, loaded), miss)

----------------------------------------------------------------------------
(* components.py: the requirements table *)

PkgSpecArgs(install_name, import_name) == [install_name |-> install_name, import_name |-> import_name]

RECURSIVE replace(_, _, _)

\* str.replace(old, new) for a one-character old: every occurrence is replaced
replace(s, old, new) ==
    IF s = "" THEN ""
    ELSE (IF SubSeq(s, 1, 1) = old THEN new ELSE SubSeq(s, 1, 1))
             \o replace(SubSeq(s, 2, Len(s)), old, new)

\* a __post_init__ that copies the distribution name unchanged
post_init_verbatim(self) ==
    IF self.import_name = ""
    THEN [self EXCEPT !.import_name = self.install_name]
    ELSE self

\* __post_init__: if not self.import_name:
\*                    self.import_name = self.install_name.replace("-", "_")
post_init(self) ==
    IF self.import_name = ""
    THEN [self EXCEPT !.import_name = replace(self.install_name, "-", "_")]
    ELSE self

\* _PkgSpec(install_name, import_name): the dataclass __init__, then __post_init__
PkgSpec(install_name, import_name) == post_init(PkgSpecArgs(install_name, import_name))

\* except (ImportError, ModuleNotFoundError)
ImportErrors == {"ImportError", "ModuleNotFoundError"}

\* the try statement of validate, given what import_module did
Validated(self, imp) ==
    [out |-> IF imp.exc = "" THEN Returned(PStr(""))
             ELSE IF imp.exc \in ImportErrors THEN Returned(PStr(self.install_name))
             ELSE [status |-> "raise", result |-> PNone, exc |-> imp.exc, names |-> {}, cause |-> ""],
     loaded |-> imp.loaded]

\* validate(): import_module(self.import_name), "" or self.install_name
validate(self, dsk, loaded) == Validated(self, import_module(self.import_name, dsk, loaded))

Declared(cls, value, required, optional, packages) ==
    [key |-> PEnum(cls, value),
     val |-> [tag |-> "requirements", required |-> required, optional |-> optional,
              packages |-> packages]]

\* the items of the dict display, in source order
RequirementItems ==
    <<Declared("EmbeddingModel", "azure_openai",
          <<"AZURE_OPENAI_API_KEY", "AZURE_OPENAI_ENDPOINT">>, <<"AZURE_DEPLOYMENT_NAME">>,
          <<PkgSpec("langchain-openai", ""), PkgSpec("openai", ""), PkgSpec("tiktoken", "")>>),
      Declared("EmbeddingModel", "openai",
          <<"OPENAI_API_KEY">>, <<>>,
          <<PkgSpec("langchain-openai", ""), PkgSpec("openai", ""), PkgSpec("tiktoken", "")>>),
      Declared("EmbeddingModel", "cohere",
          <<"COHERE_API_KEY">>, <<>>,
          <<PkgSpec("cohere", "")>>),
      Declared("EmbeddingModel", "vertexai",
          <<"GOOGLE_APPLICATION_CREDENTIALS">>, <<>>,
          <<PkgSpec("langchain-google-vertexai", ""), PkgSpec("google-cloud-aiplatform", "")>>),
      Declared("EmbeddingModel", "bedrock",
          <<"AWS_ACCESS_KEY_ID", "AWS_SECRET_ACCESS_KEY", "AWS_REGION">>, <<>>,
          <<PkgSpec("boto3", "")>>),
      Declared("EmbeddingModel", "jina",
          <<"JINA_API_KEY">>, <<>>,
          <<PkgSpec("jina", "")>>),
      Declared("EmbeddingModel", "huggingface",
          <<>>, <<>>,
          <<PkgSpec("langchain-huggingface", ""), PkgSpec("sentence_transformers", ""), PkgSpec("torch", "")>>),
      Declared("EmbeddingModel", "ollama",
          <<>>, <<>>,
          <<PkgSpec("langchain-ollama", ""), PkgSpec("ollama", "")>>),
      Declared("VectorDatabase", "pinecone",
          <<"PINECONE_API_KEY", "PINECONE_ENVIRONMENT">>, <<>>,
          <<PkgSpec("pinecone-client", "pinecone")>>),
      Declared("VectorDatabase", "weaviate",
          <<"WEAVIATE_URL", "WEAVIATE_API_KEY">>, <<>>,
          <<PkgSpec("weaviate-client", "weaviate")>>),
      Declared("VectorDatabase", "qdrant",
          <<"QDRANT_URL">>, <<"QDRANT_API_KEY">>,
          <<PkgSpec("qdrant-client", "qdrant")>>),
      Declared("VectorDatabase", "milvus",
          <<"MILVUS_HOST", "MILVUS_PORT">>, <<>>,
          <<PkgSpec("pymilvus", "")>>),
      Declared("VectorDatabase", "pgvector",
          <<"PGVECTOR_CONNECTION_STRING">>, <<>>,
          <<PkgSpec("psycopg2-binary", ""), PkgSpec("pgvector", "")>>),
      Declared("VectorDatabase", "elasticsearch",
          <<"ELASTICSEARCH_URL">>, <<"ELASTICSEARCH_API_KEY">>,
          <<PkgSpec("elasticsearch", "")>>),
      Declared("VectorDatabase", "chroma",
          <<>>, <<>>,
          <<PkgSpec("chromadb", "")>>),
      Declared("VectorDatabase", "faiss",
          <<>>, <<>>,
          <<PkgSpec("faiss-cpu", "")>>),
      Declared("ParserType", "unstructured",
          <<>>, <<>>,
          <<PkgSpec("unstructured", "")>>),
      Declared("ParserType", "pymupdf",
          <<>>, <<>>,
          <<PkgSpec("pymupdf", "")>>),
      Declared("ParserType", "pypdf",
          <<>>, <<>>,
          <<PkgSpec("pypdf", "")>>),
      Declared("ParserType", "docx",
          <<>>, <<>>,
          <<PkgSpec("python-docx", "docx")>>),
      Declared("ParserType", "azure_blob",
          <<"AZURE_STORAGE_CONNECTION_STRING">>, <<>>,
          <<PkgSpec("azure-storage-blob", "")>>),
      Declared("ParserType", "s3",
          <<"AWS_ACCESS_KEY_ID", "AWS_SECRET_ACCESS_KEY", "AWS_REGION">>, <<>>,
          <<PkgSpec("boto3", "")>>),
      Declared("ParserType", "web",
          <<>>, <<>>,
          <<PkgSpec("beautifulsoup4", "bs4"), PkgSpec("requests", "")>>),
      Declared("RetrieverType", "bm25",
          <<>>, <<>>,
          <<PkgSpec("rank-bm25", "")>>),
      Declared("RerankerType", "cohere",
          <<"COHERE_API_KEY">>, <<>>,
          <<PkgSpec("cohere", "")>>),
      Declared("RerankerType", "jina",
          <<"JINA_API_KEY">>, <<>>,
          <<PkgSpec("jina", "")>>),
      Declared("RerankerType", "rankllm",
          <<>>, <<>>,
          <<PkgSpec("rank-llm", "")>>),
      Declared("RerankerType", "mixedbread-ai/mxbai-rerank-large-v1",
          <<>>, <<>>,
          <<PkgSpec("torch", ""), PkgSpec("transformers", "")>>),
      Declared("RerankerType", "mixedbread-ai/mxbai-rerank-base-v1",
          <<>>, <<>>,
          <<PkgSpec("torch", ""), PkgSpec("transformers", "")>>),
      Declared("RerankerType", "BAAI/bge-reranker-base",
          <<>>, <<>>,
          <<PkgSpec("torch", ""), PkgSpec("transformers", "")>>),
      Declared("RerankerType", "flashrank",
          <<>>, <<>>,
          <<PkgSpec("flash-rank", "")>>)>>

\* a == b for members of (str, Enum) classes: str comes first in the MRO, so
\* equality and hash are those of the string value, whatever the class
PyEq(a, b) == a.value = b.value

Position(d, key) == CHOOSE i \in 1..Len(d) : PyEq(d[i].key, key)

Has(d, key) == \E i \in 1..Len(d) : PyEq(d[i].key, key)

DictStore(d, item) ==
    IF Has(d, item.key)
    THEN [d EXCEPT ![Position(d, item.key)].val = item.val]
    ELSE Append(d, item)

RECURSIVE DictDisplay(_, _)

\* {k1: v1, k2: v2, ...}: the items are stored one after the other; an item
\* whose key equals a stored key replaces that key's value
DictDisplay(items, n) ==
    IF n = 0 THEN <<>> ELSE DictStore(DictDisplay(items, n - 1), items[n])

COMPONENT_ENV_REQUIREMENTS == DictDisplay(RequirementItems, Len(RequirementItems))

Absent == [tag |-> "absent"]

\* d.get(key)
DictGet(d, key) == IF Has(d, key) THEN d[Position(d, key)].val ELSE Absent

EnumClasses ==
    {"GraphType", "LLMType", "ParserType", "ChunkingStrategy", "EmbeddingModel",
     "VectorDatabase", "RetrieverType", "RerankerType", "EvaluatorType"}

Members == {PEnum(c, v) : <<c, v>> \in UNION {{c} \X EnumValues(c) : c \in EnumClasses}}

----------------------------------------------------------------------------
(* The documents a configuration file may hold *)

\* how many keys of the minimal document a drawn document changes
MaxEdits == 3

Rec1(k1, v1) == PDict([x \in {k1} |-> v1])

Rec2(k1, v1, k2, v2) == PDict([x \in {k1, k2} |-> IF x = k1 THEN v1 ELSE v2])

\* role sub-configurations as they are written in a document
GoodLoader == Rec1("type", PStr("pypdf"))

OtherLoader == Rec2("type", PStr("docx"), "loader_kwargs", PDict(EmptyMap))

BogusLoader == Rec1("type", PStr("bogus"))

UntypedLoader == Rec1("loader_kwargs", PDict(EmptyMap))

BadKwargsLoader == Rec2("type", PStr("pypdf"), "loader_kwargs", PStr("fast"))

InvalidLoaders == {BogusLoader, UntypedLoader, BadKwargsLoader}

Set(k, v) == [key |-> k, op |-> "set", val |-> v]

Del(k) == [key |-> k, op |-> "del", val |-> PNone]

Edits ==
    {Del("input_source"), Set("input_source", PList(<<PStr("a.pdf"), PStr("b.pdf")>>)),
     Set("input_source", PInt(7)),
     Del("test_dataset"), Set("test_dataset", PInt(7)),
     Set("document_loaders", PList(<<GoodLoader>>)),
     Set("document_loaders", PList(<<GoodLoader, OtherLoader>>)),
     Set("document_loaders", PList(<<BogusLoader>>)),
     Set("document_loaders", PList(<<GoodLoader, UntypedLoader>>)),
     Set("document_loaders", PList(<<BadKwargsLoader>>)),
     Set("document_loader", GoodLoader),
     Set("document_loader", BogusLoader),
     Set("document_loader", UntypedLoader),
     Set("document_loader", BadKwargsLoader),
     Set("chunking_strategies", PList(<<Rec1("type", PStr("TokenTextSplitter"))>>)),
     Set("chunking_strategy", Rec1("type", PStr("bogus"))),
     Set("chunk_size", PInt(1000)),
     Set("chunk_size", Rec2("min", PInt(200), "max", PInt(400))),
     Set("chunk_overlap", PInt(50)),
     Set("chunk_overlap", PList(<<PInt(50), PInt(100)>>)),
     Set("embedding_models", PList(<<Rec1("type", PStr("openai"))>>)),
     Set("embedding_model", Rec1("type", PStr("openai"))),
     Set("vector_databases", PList(<<Rec1("type", PStr("chroma"))>>)),
     Set("vector_database", Rec1("type", PStr("chroma"))),
     Set("sampling_rate", PFloat("0.5")),
     Set("evaluation_config", PNone),
     Set("foo", PStr("bar")),
     [key |-> "1", op |-> "nonstr", val |-> PNone]}

\* the document with the two mandatory keys and nothing else
MinimalDocument == Rec2("input_source", PStr("docs/"), "test_dataset", PStr("test.csv"))

RECURSIVE EditSets(_)

\* the sets of at most n edits, no two of the same key
EditSets(n) ==
    IF n = 0 THEN {{}}
    ELSE LET prev == EditSets(n - 1)
         IN prev \cup {S \cup {e} : <<S, e>> \in
                          {x \in prev \X Edits : \A d \in x[1] : d.key # x[2].key}}

ApplyEdits(doc, E) ==
    LET sets == {e \in E : e.op = "set"}
        dels == {e.key : e \in {x \in E : x.op = "del"}}
        keys == ((DOMAIN doc.m) \ dels) \cup {e.key : e \in sets}
        m == [x \in keys |->
                 IF \E e \in sets : e.key = x
                 THEN (CHOOSE e \in sets : e.key = x).val
                 ELSE doc.m[x]]
    IN IF \E e \in E : e.op = "nonstr" THEN PDictNonStr(m) ELSE PDict(m)

\* an empty file
NullDocument == PNone

\* a file holding a YAML list of the two mandatory names
SeqDocument == PList(<<PStr("input_source"), PStr("test_dataset")>>)

Documents == {ApplyEdits(MinimalDocument, E) : E \in EditSets(MaxEdits)} \cup {NullDocument, SeqDocument}

Paths == {"config.yaml", "saved.yaml"}

\* the values the class-definition-time expression of study_name may have produced
StudyNames == {"data_ingest_1700000000001", "data_ingest_1700000000999"}

----------------------------------------------------------------------------
(* The caller: load a file, save the record it holds *)

cfgvars == <<clock, study_default, files, held, last, saved>>

regvars == <<built, disk, sys_modules, import_log, missing, call>>

vars == <<clock, study_default, files, held, last, saved, built, disk, sys_modules, import_log, missing, call>>

NoOutcome == [status |-> "none", exc |-> "", names |-> {}, title |-> "", errs |-> {},
              record |-> NoRecord, attempts |-> <<>>]

NoCall == [op |-> "none", target |-> PNone, out |-> Returned(PNone), env |-> PNone]

\* a fresh interpreter: nothing loaded, components.py not yet executed
RegistryStart ==
    /\ built = FALSE
    /\ disk = [m \in Modules |-> "absent"]
    /\ sys_modules = {}
    /\ import_log = {}
    /\ missing = {}
    /\ call = NoCall

ConfigStart(d) ==
    /\ files = [p \in Paths |-> IF p = "config.yaml" THEN d ELSE NoFile]
    /\ held = NoRecord
    /\ clock = 0
    /\ last = [op |-> "none", path |-> "", doc |-> NoFile, out |-> NoOutcome, at |-> 0]
    /\ saved = [p \in Paths |-> NoRecord]

Init ==
    /\ study_default \in StudyNames
    /\ \E d \in Documents : ConfigStart(d)
    /\ RegistryStart

Loaded(p, out) ==
    /\ last' = [op |-> "load", path |-> p, doc |-> files[p], out |-> out, at |-> clock]
    /\ held' = IF out.status = "ok" THEN out.record ELSE held
    /\ UNCHANGED <<clock, study_default, files, saved>>
    /\ UNCHANGED regvars

\* record = load_config(path)
LoadConfig(p) == Loaded(p, load_config(files[p]))

Saved(p, doc) ==
    /\ files' = [files EXCEPT ![p] = doc]
    /\ saved' = [saved EXCEPT ![p] = held]
    /\ last' = [op |-> "save", path |-> p, doc |-> doc, out |-> NoOutcome, at |-> clock]
    /\ UNCHANGED <<clock, study_default, held>>
    /\ UNCHANGED regvars

\* save_config(held, path)
SaveConfig(p) ==
    /\ held # NoRecord
    /\ Saved(p, save_config(held))

Next ==
    \/ \E p \in Paths : LoadConfig(p)
    \/ \E p \in Paths : SaveConfig(p)

Spec == Init /\ [][Next]_vars

----------------------------------------------------------------------------
(* The caller over time: loads at different moments of one process *)

\* how far the clock runs
MaxClock == 2

\* optimization sections: none given, given without a study name, given with one
NamedStudy == Rec1("study_name", PStr("nightly"))

UnnamedStudy == Rec1("n_trials", PInt(5))

StudyDocuments ==
    {MinimalDocument} \cup
    {ApplyEdits(MinimalDocument, {Set("optimization", o)}) :
        o \in {NamedStudy, UnnamedStudy, PDict(EmptyMap), PNone}}

\* config.py has just been imported: the class bodies ran at tick 0
StudyInit ==
    /\ study_default \in StudyNames
    /\ \E d \in StudyDocuments : ConfigStart(d)
    /\ RegistryStart

\* time passes
Tick ==
    /\ clock < MaxClock
    /\ clock' = clock + 1
    /\ UNCHANGED <<study_default, files, held, last, saved>>
    /\ UNCHANGED regvars

\* the user edits the configuration file between runs
EditFile(d) ==
    /\ files' = [files EXCEPT !["config.yaml"] = d]
    /\ saved' = [saved EXCEPT !["config.yaml"] = NoRecord]
    /\ UNCHANGED <<clock, study_default, held, last>>
    /\ UNCHANGED regvars

StudyNext ==
    \/ \E p \in Paths : LoadConfig(p)
    \/ \E p \in Paths : SaveConfig(p)
    \/ \E d \in StudyDocuments : EditFile(d)
    \/ Tick

StudySpec == StudyInit /\ [][StudyNext]_vars

----------------------------------------------------------------------------
(* The registry's user and its environment *)

\* how many of the backing modules the environment installs and removes
MaxModules == 2

ModuleOrder ==
    <<"langchain_openai", "rerankers", "langchain.retrievers", "langchain_huggingface",
      "langchain_text_splitters", "langchain_experimental.text_splitter",
      "langchain_community.embeddings", "langchain_community.document_loaders",
      "langchain.vectorstores">>

Tracked == {ModuleOrder[i] : i \in 1..MaxModules} \cap Modules

TrackedSymbols ==
    {<<f.made.get_class.module_path, f.made.get_class.class_name>> :
        f \in {g \in RegistryMaps : g.made.get_class.module_path \in Tracked}}

RegistryInit ==
    /\ study_default = CHOOSE n \in StudyNames : TRUE
    /\ ConfigStart(MinimalDocument)
    /\ RegistryStart

\* the modules imported while the statements that build the maps run
ImportedAtBuild == UNION {f.made.imports : f \in RegistryMaps}

\* "import ragbuilder.config.components": the module body runs, the maps are built
ImportComponents ==
    /\ ~built
    /\ built' = TRUE
    /\ sys_modules' = sys_modules \cup {m \in ImportedAtBuild : disk[m] = "installed"}
    /\ import_log' = import_log \cup
           {[module |-> m, by |-> "build"] : m \in {x \in ImportedAtBuild : disk[x] = "installed"} \ sys_modules}
    /\ call' = [op |-> "build", target |-> PNone, out |-> Returned(PNone), env |-> PNone]
    /\ UNCHANGED <<disk, missing>>
    /\ UNCHANGED cfgvars

Invoked(f, r) ==
    /\ sys_modules' = r.loaded
    /\ import_log' = import_log \cup {[module |-> m, by |-> "invoke"] : m \in r.loaded \ sys_modules}
    /\ call' = [op |-> "invoke", target |-> f, out |-> r.out,
                env |-> [loaded |-> f.made.get_class.module_path \in sys_modules,
                         on_disk |-> disk[f.made.get_class.module_path],
                         defined |-> <<f.made.get_class.module_path, f.made.get_class.class_name>> \notin missing]]
    /\ UNCHANGED <<built, disk, missing>>
    /\ UNCHANGED cfgvars

\* MAP[key]() : the factory stored in a registry map is called
Invoke(f) ==
    /\ built
    /\ Invoked(f, get_class(f.made.get_class, disk, sys_modules, missing))

\* the environment installs, breaks or removes a package
SetDisk(m, st) ==
    /\ disk[m] # st
    /\ disk' = [disk EXCEPT ![m] = st]
    /\ UNCHANGED <<built, sys_modules, import_log, missing, call>>
    /\ UNCHANGED cfgvars

\* a release of a package renames or drops a symbol (one symbol at a time)
DropSymbol(ms) ==
    /\ missing = {}
    /\ missing' = missing \cup {ms}
    /\ UNCHANGED <<built, disk, sys_modules, import_log, call>>
    /\ UNCHANGED cfgvars

RestoreSymbol(ms) ==
    /\ ms \in missing
    /\ missing' = missing \ {ms}
    /\ UNCHANGED <<built, disk, sys_modules, import_log, call>>
    /\ UNCHANGED cfgvars

RegistryNext ==
    \/ ImportComponents
    \/ \E f \in RegistryMaps : Invoke(f)
    \/ \E m \in Tracked, st \in {"absent", "installed", "broken"} : SetDisk(m, st)
    \/ \E ms \in TrackedSymbols : DropSymbol(ms)
    \/ \E ms \in TrackedSymbols : RestoreSymbol(ms)

RegistrySpec == RegistryInit /\ [][RegistryNext]_vars

----------------------------------------------------------------------------
(* The requirements table's user *)

Looked(op, key, out) ==
    /\ call' = [op |-> op, target |-> [key |-> key], out |-> out, env |-> PNone]
    /\ UNCHANGED <<built, disk, sys_modules, import_log, missing>>
    /\ UNCHANGED cfgvars

\* COMPONENT_ENV_REQUIREMENTS.get(key)
Get(key) ==
    /\ built
    /\ Looked("get", key, Returned(DictGet(COMPONENT_ENV_REQUIREMENTS, key)))

KeyError == [status |-> "raise", result |-> Absent, exc |-> "KeyError", names |-> {}, cause |-> ""]

\* COMPONENT_ENV_REQUIREMENTS[key]
Subscript(key) ==
    /\ built
    /\ Looked("subscript", key,
              IF Has(COMPONENT_ENV_REQUIREMENTS, key)
              THEN Returned(DictGet(COMPONENT_ENV_REQUIREMENTS, key))
              ELSE KeyError)

TableNext ==
    \/ ImportComponents
    \/ \E key \in Members : Get(key)
    \/ \E key \in Members : Subscript(key)

TableSpec == RegistryInit /\ [][TableNext]_vars

----------------------------------------------------------------------------
(* The package specs' user: construct a spec, validate it *)

\* how many of the packages' modules the environment installs and removes
MaxPackages == 2

\* constructor arguments, as the table writes them
PackageArgs ==
    {PkgSpecArgs("python-docx", ""), PkgSpecArgs("python-docx", "docx"),
     PkgSpecArgs("rank-bm25", ""), PkgSpecArgs("google-cloud-aiplatform", ""),
     PkgSpecArgs("sentence_transformers", ""), PkgSpecArgs("boto3", ""),
     PkgSpecArgs("beautifulsoup4", "bs4"), PkgSpecArgs("pinecone-client", "pinecone")}

PackageSpecs == {post_init(a) : a \in PackageArgs}

PackageModules == {p.import_name : p \in PackageSpecs}

PackageOrder ==
    <<"python_docx", "docx", "rank_bm25", "bs4", "boto3", "pinecone",
      "google_cloud_aiplatform", "sentence_transformers">>

TrackedPackages == {PackageOrder[i] : i \in 1..MaxPackages} \cap PackageModules

\* a fresh interpreter in an environment where none of the packages is installed
PackageInit ==
    /\ study_default = CHOOSE n \in StudyNames : TRUE
    /\ ConfigStart(MinimalDocument)
    /\ built = FALSE
    /\ disk = [m \in PackageModules |-> "absent"]
    /\ sys_modules = {}
    /\ import_log = {}
    /\ missing = {}
    /\ call = NoCall

\* spec = _PkgSpec(install_name, import_name)
NewPkgSpec(args) ==
    /\ built
    /\ call' = [op |-> "construct", target |-> args, out |-> Returned(post_init(args)), env |-> PNone]
    /\ UNCHANGED <<built, disk, sys_modules, import_log, missing>>
    /\ UNCHANGED cfgvars

\* what the interpreter and the environment hold for the name about to be imported
ImportEnv(name) ==
    [loaded |-> name \in sys_modules, on_disk |-> disk[name]]

Validation(self, r) ==
    /\ sys_modules' = r.loaded
    /\ import_log' = import_log \cup {[module |-> m, by |-> "validate"] : m \in r.loaded \ sys_modules}
    /\ call' = [op |-> "validate", target |-> self, out |-> r.out, env |-> ImportEnv(self.import_name)]
    /\ UNCHANGED <<built, disk, missing>>
    /\ UNCHANGED cfgvars

\* spec.validate()
ValidatePackage(self) ==
    /\ built
    /\ Validation(self, validate(self, disk, sys_modules))

PackageNext ==
    \/ ImportComponents
    \/ \E args \in PackageArgs : NewPkgSpec(args)
    \/ \E self \in PackageSpecs : ValidatePackage(self)
    \/ \E m \in TrackedPackages, st \in {"absent", "installed", "broken"} : SetDisk(m, st)

PackageSpec == PackageInit /\ [][PackageNext]_vars

----------------------------------------------------------------------------
(* Properties of load_config and save_config *)

IsLoad == last.op = "load"

IsMapping(d) == d.tag = "map" /\ d.strkeys

HasOnlyMandatoryKeys(d) == IsMapping(d) /\ DOMAIN d.m = {"input_source", "test_dataset"}

WellTypedMandatory(d) ==
    /\ Validate(TUnion(TStr, TList(TStr)), d.m["input_source"]).ok
    /\ Validate(TStr, d.m["test_dataset"]).ok

Field(rec, f) == rec.fields[f]

\* C1 as stated: a document with input_source and test_dataset and no other
\* key loads as the single-run variant DataIngestConfig with chunk_size 1000,
\* chunk_overlap 100, the HuggingFace embedding model and the FAISS database.
C1_Original ==
    (IsLoad /\ HasOnlyMandatoryKeys(last.doc) /\ WellTypedMandatory(last.doc)) =>
        /\ last.out.status = "ok"
        /\ last.out.record.cls = "DataIngestConfig"
        /\ Field(last.out.record, "chunk_size") = PInt(1000)
        /\ Field(last.out.record, "chunk_overlap") = PInt(100)
        /\ Field(Field(last.out.record, "embedding_model"), "type") = PEnum("EmbeddingModel", "huggingface")
        /\ Field(Field(last.out.record, "vector_database"), "type") = PEnum("VectorDatabase", "faiss")

\* C1 amended: a document with a well-typed input_source and test_dataset and
\* no other key loads, on the first attempt, as the multi-option variant
\* DataIngestOptionsConfig with that variant's defaults: chunk_size the range
\* 100..500 step 100, chunk_overlap [100], embedding_models [HuggingFace
\* all-MiniLM-L6-v2], vector_databases [FAISS]; the two mandatory values are
\* the document's.
C1_MinimalLoadsAsOptions ==
    (IsLoad /\ HasOnlyMandatoryKeys(last.doc) /\ WellTypedMandatory(last.doc)) =>
        /\ last.out.status = "ok"
        /\ last.out.attempts = <<"DataIngestOptionsConfig">>
        /\ last.out.record.cls = "DataIngestOptionsConfig"
        /\ Field(last.out.record, "input_source") = last.doc.m["input_source"]
        /\ Field(last.out.record, "test_dataset") = last.doc.m["test_dataset"]
        /\ Field(Field(last.out.record, "chunk_size"), "min") = PInt(100)
        /\ Field(Field(last.out.record, "chunk_size"), "max") = PInt(500)
        /\ Field(Field(last.out.record, "chunk_size"), "stepsize") = PInt(100)
        /\ Field(last.out.record, "chunk_overlap") = PList(<<PInt(100)>>)
        /\ Field(last.out.record, "embedding_models") = PList(<<DefaultEmbedding>>)
        /\ Field(DefaultEmbedding, "type") = PEnum("EmbeddingModel", "huggingface")
        /\ Field(last.out.record, "vector_databases") = PList(<<DefaultVectorDB>>)
        /\ Field(DefaultVectorDB, "type") = PEnum("VectorDatabase", "faiss")

\* C1 witness: the minimal document has been loaded and a record returned
C1_Witness ==
    /\ IsLoad /\ last.doc = MinimalDocument
    /\ last.out.status = "ok"

HasList(d, key) == IsMapping(d) /\ key \in DOMAIN d.m /\ d.m[key].tag = "seq"

HasMap(d, key) == IsMapping(d) /\ key \in DOMAIN d.m /\ d.m[key].tag = "map"

\* d is a valid document of the variant cls: it has only keys cls declares,
\* and cls validates it
ValidFor(cls, d) ==
    /\ IsMapping(d)
    /\ DOMAIN d.m \subseteq DOMAIN ModelFields(cls)
    /\ Construct(cls, d).exc = ""

\* C2 as stated: a valid multi-option document whose document_loaders key is a
\* list loads as DataIngestOptionsConfig, and a valid single-run document whose
\* document_loader key (singular) is a mapping loads as DataIngestConfig.
C2_ShapeDecidesVariant ==
    IsLoad =>
        /\ (HasList(last.doc, "document_loaders") /\ ValidFor("DataIngestOptionsConfig", last.doc)) =>
              /\ last.out.status = "ok"
              /\ last.out.record.cls = "DataIngestOptionsConfig"
        /\ (HasMap(last.doc, "document_loader") /\ ValidFor("DataIngestConfig", last.doc)) =>
              /\ last.out.status = "ok"
              /\ last.out.record.cls = "DataIngestConfig"

\* the keys that hold role sub-configurations, with their declared types
RoleKeys ==
    {"document_loaders", "chunking_strategies", "embedding_models", "vector_databases",
     "document_loader", "chunking_strategy", "embedding_model", "vector_database"}

RoleType(key) ==
    IF key \in DOMAIN DataIngestOptionsConfig
    THEN DataIngestOptionsConfig[key].type
    ELSE DataIngestConfig[key].type

\* a role sub-configuration is present and does not validate against its schema
HasInvalidRole(d) ==
    /\ IsMapping(d)
    /\ \E key \in RoleKeys \cap DOMAIN d.m : ~Validate(RoleType(key), d.m[key]).ok

\* C3 as stated: a document in which a role sub-configuration that is present
\* is invalid (type outside the enumeration, type missing, wrongly typed
\* value) makes load_config raise and return no record.
C3_InvalidRoleFailsLoad ==
    (IsLoad /\ HasInvalidRole(last.doc)) =>
        /\ last.out.status = "raise"
        /\ last.out.record = NoRecord

MissingMandatory(d) == {"input_source", "test_dataset"} \ DOMAIN d.m

\* C4 as stated: a document lacking input_source or test_dataset makes
\* load_config raise, before any schema is attempted, an error that names the
\* missing field.
C4_MissingFieldIdentified ==
    (IsLoad /\ IsMapping(last.doc) /\ MissingMandatory(last.doc) # {}) =>
        /\ last.out.status = "raise"
        /\ last.out.attempts = <<>>
        /\ MissingMandatory(last.doc) \subseteq last.out.names

\* C5 as stated: loading a file that save_config wrote from a record r
\* succeeds and yields a record of r's variant equal to r in all fields.
C5_RoundTrip ==
    (IsLoad /\ saved[last.path] # NoRecord) =>
        /\ last.out.status = "ok"
        /\ last.out.record.cls = saved[last.path].cls
        /\ last.out.record = saved[last.path]

\* the load got as far as the schema attempts
Attempted == IsLoad /\ last.out.attempts # <<>>

OptionsAttempt == Construct("DataIngestOptionsConfig", last.doc)

SingleRunAttempt == Construct("DataIngestConfig", last.doc)

C7_UnknownKeysRejected ==
    (IsLoad /\ last.out.status = "ok") =>
        DOMAIN last.doc.m \subseteq DOMAIN ModelFields(last.out.record.cls)

----------------------------------------------------------------------------
(* Properties of the registry *)

IsInvoke == call.op = "invoke"

Closure == call.target.made.get_class

\* the import system can produce the module: it is loaded already, or installed
Importable == call.env.loaded \/ call.env.on_disk = "installed"

\* C8: calling a factory made by lazy_load(module_path, class_name) either
\* returns the symbol class_name of module_path or raises an error whose text
\* holds both class_name and module_path; when the import or the attribute
\* lookup fails it raises, and returns nothing in place of the symbol.
C8_ResolveOrRaise ==
    IsInvoke =>
        /\ \/ /\ call.out.status = "ok"
              /\ call.out.result = Symbol(Closure.module_path, Closure.class_name)
              /\ Importable /\ call.env.defined
           \/ /\ call.out.status = "raise"
              /\ call.out.exc = "ValueError"
              /\ {Closure.class_name, Closure.module_path} \subseteq call.out.names
              /\ call.out.result = PNone
        /\ (~Importable \/ ~call.env.defined) => call.out.status = "raise"

\* C8 witness: a factory was called while its module was absent, and raised
C8_Witness ==
    /\ IsInvoke
    /\ call.env.on_disk = "absent" /\ ~call.env.loaded
    /\ call.out.status = "raise" /\ call.out.cause = "ModuleNotFoundError"

\* C9 as stated: building the maps imports no module; a module is imported
\* only by a factory call; the outcome of a call depends only on whether the
\* module is installed and defines the symbol at that moment, so that an
\* earlier successful call does not make a later one succeed.
C9_Original ==
    /\ \A e \in import_log : e.by = "invoke"
    /\ call.op = "build" => sys_modules = {}
    /\ IsInvoke => (call.out.status = "ok" <=> (call.env.on_disk = "installed" /\ call.env.defined))

\* C9 amended: building the maps imports no module; a module is imported only
\* by a factory call; the factory keeps nothing, so the outcome of a call
\* depends only on whether the module can be imported at that moment (it is
\* installed, or the interpreter still holds it in sys.modules from an earlier
\* import) and defines the symbol at that moment: an earlier failed call does
\* not make a later one fail, and an earlier successful call makes a later one
\* succeed only through sys.modules.
C9_DeferredUncached ==
    /\ \A e \in import_log : e.by = "invoke"
    /\ call.op = "build" => sys_modules = {}
    /\ IsInvoke => (call.out.status = "ok" <=> (Importable /\ call.env.defined))
    /\ IsInvoke => (Closure.module_path \in sys_modules <=> Importable)

\* C9 witness: a factory was called after its module had been loaded by an
\* earlier call and then removed from the disk, and it returned the symbol
C9_Witness ==
    /\ IsInvoke
    /\ call.env.loaded /\ call.env.on_disk = "absent"
    /\ call.out.status = "ok"

\* the record the table's source declares for exactly this class and value
ExactEntry(key) ==
    IF \E i \in 1..Len(RequirementItems) : RequirementItems[i].key = key
    THEN RequirementItems[CHOOSE i \in 1..Len(RequirementItems) : RequirementItems[i].key = key].val
    ELSE Absent

\* C10 as stated: a lookup with a member of kind k returns the record declared
\* for exactly that kind and value, and "absent" for every pair without a
\* declared entry, also when a declared value of another kind has the same
\* string.
C10_KeyedByKindAndValue ==
    call.op \in {"get", "subscript"} => call.out.result = ExactEntry(call.target.key)

\* the load returned a multi-option record whose file gave no study name, so
\* the record's study_name is the default
DefaultNamed(l) ==
    /\ l.op = "load"
    /\ l.out.status = "ok"
    /\ l.out.record.cls = "DataIngestOptionsConfig"
    /\ Field(l.out.record, "optimization").tag = "model"
    /\ \/ "optimization" \notin DOMAIN l.doc.m
       \/ /\ l.doc.m["optimization"].tag = "map"
          /\ "study_name" \notin DOMAIN l.doc.m["optimization"].m

study_name(l) == Field(Field(l.out.record, "optimization"), "study_name")

\* C11 as stated: two records created at different times without an explicit
\* study name do not share their default study_name; here, for a load that
\* follows a load made at an earlier tick.
C11_FreshDefaultStudyName ==
    [][(DefaultNamed(last) /\ DefaultNamed(last') /\ last'.at # last.at)
          => study_name(last') # study_name(last)]_vars

\* the characters of b are those of a, with "_" wherever a has "-"
Underscored(a, b) ==
    /\ Len(b) = Len(a)
    /\ \A i \in 1..Len(a) :
           SubSeq(b, i, i) = IF SubSeq(a, i, i) = "-" THEN "_" ELSE SubSeq(a, i, i)

\* a spec constructed from args has the import name the rule gives
ImportNameRule(args, spec) ==
    /\ spec.install_name = args.install_name
    /\ args.import_name = "" => Underscored(args.install_name, spec.import_name)
    /\ args.import_name # "" => spec.import_name = args.import_name

IsValidate == call.op = "validate"

\* import_module can produce the module: it is loaded already or installed
CanImport == call.env.loaded \/ call.env.on_disk = "installed"

====
